---------------------------- MODULE Spec2Model ----------------------------
(***************************************************************************)
(* Capability Matrix of the prompt-stack backend                           *)
(* (backend/app/core/capabilities.py, backend/app/core/utils/env.py,       *)
(* backend/app/core/config.py).                                            *)
(*                                                                         *)
(* A Python str is a finite sequence of one-character strings, so that     *)
(* str.lower, str.strip and the `in` substring test are computed and not   *)
(* assumed.  The process state is the settings object, the snapshot        *)
(* CapabilityMatrix._capabilities built by the constructor, and the        *)
(* dict CAPS the module exports, and the position of the one caller: idle, *)
(* or holding the value a query returned.                                  *)
(***************************************************************************)
EXTENDS Naturals, Sequences, FiniteSets, TLC

VARIABLES settings, capabilities, CAPS, pc, call, ret

vars == <<settings, capabilities, CAPS, pc, call, ret>>

---------------------------------------------------------------------------
(* str helpers                                                             *)

\* str.lower() on one character: the ASCII letters that have a lower case
ToLower ==
    "A" :> "a" @@ "B" :> "b" @@ "C" :> "c" @@ "D" :> "d" @@ "E" :> "e" @@
    "F" :> "f" @@ "G" :> "g" @@ "H" :> "h" @@ "I" :> "i" @@ "J" :> "j" @@
    "K" :> "k" @@ "L" :> "l" @@ "M" :> "m" @@ "N" :> "n" @@ "O" :> "o" @@
    "P" :> "p" @@ "Q" :> "q" @@ "R" :> "r" @@ "S" :> "s" @@ "T" :> "t" @@
    "U" :> "u" @@ "V" :> "v" @@ "W" :> "w" @@ "X" :> "x" @@ "Y" :> "y" @@
    "Z" :> "z"

Whitespace == {" ", "\t", "\n", "\r"}

LowerChar(c) == IF c \in DOMAIN ToLower THEN ToLower[c] ELSE c

\* str.lower()
Lower(s) == [i \in 1..Len(s) |-> LowerChar(s[i])]

\* str.strip(): drop leading and trailing whitespace
Strip(s) ==
    IF \A i \in 1..Len(s) : s[i] \in Whitespace
    THEN <<>>
    ELSE LET first == CHOOSE i \in 1..Len(s) :
                          /\ s[i] \notin Whitespace
                          /\ \A j \in 1..(i-1) : s[j] \in Whitespace
             last  == CHOOSE i \in 1..Len(s) :
                          /\ s[i] \notin Whitespace
                          /\ \A j \in (i+1)..Len(s) : s[j] \in Whitespace
         IN  SubSeq(s, first, last)

\* Python `sub in s` for two strs
Contains(s, sub) ==
    \E k \in 0..(Len(s) - Len(sub)) :
        \A i \in 1..Len(sub) : s[k + i] = sub[i]

---------------------------------------------------------------------------
(* env.py: is_placeholder                                                  *)

placeholders == <<
    <<"y","o","u","r","_">>,
    <<"y","o","u","r","-">>,
    <<"x","x","x">>,
    <<"t","e","s","t","_">>,
    <<"s","k","_","t","e","s","t","_">>,
    <<"p","l","a","c","e","h","o","l","d","e","r">>,
    <<"e","x","a","m","p","l","e">>,
    <<"<","y","o","u","r">>,
    <<"c","h","a","n","g","e","_","m","e">>,
    <<"t","o","d","o">>,
    <<"f","i","x","m","e">>,
    <<"r","e","p","l","a","c","e","m","e">>,
    <<"y","o","u","r","_","k","e","y","_","h","e","r","e">>,
    <<"a","d","d","_","y","o","u","r","_">>,
    <<"i","n","s","e","r","t","_">>,
    <<"d","u","m","m","y">>,
    <<"s","a","m","p","l","e">> >>

exact_placeholders == {
    <<"s","k","_","t","e","s","t","_","1","2","3","4","5","6","7","8","9","0">>,
    <<"e","y","J","h","b","G","c","i","O","i",".",".",".">>,
    <<"h","t","t","p","s",":","/","/","e","x","a","m","p","l","e",".",
      "s","u","p","a","b","a","s","e",".","c","o">>,
    <<"y","o","u","r","-","a","p","i","-","k","e","y","-","h","e","r","e">>,
    <<"y","o","u","r","_","a","p","i","_","k","e","y","_","h","e","r","e">> }

\* Python None, the one value of an Optional[str] that is not a str
None == <<"None">>

\* is_placeholder without the final test against the exact values
is_placeholder_without_exact(value) ==
    IF value = None \/ value = <<>>
    THEN TRUE
    ELSE LET value_lower == Lower(Strip(value))
         IN  \E p \in 1..Len(placeholders) :
                 Contains(value_lower, placeholders[p])

is_placeholder(value) ==
    IF value = None \/ value = <<>>
    THEN TRUE
    ELSE LET value_lower == Lower(Strip(value))
         IN  IF \E p \in 1..Len(placeholders) :
                     Contains(value_lower, placeholders[p])
             THEN TRUE
             ELSE value \in exact_placeholders

---------------------------------------------------------------------------
(* Configuration values the environment may set (config.py: every field    *)
(* is a str; a credential defaults to "", DEMO_MODE to "auto").  A value   *)
(* is written as a string literal; Chars gives its characters.             *)

Chars(v) ==
    CASE v = ""        -> <<>>
      [] v = "auto"    -> <<"a","u","t","o">>
      [] v = "true"    -> <<"t","r","u","e">>
      [] v = "false"   -> <<"f","a","l","s","e">>
      [] v = "False"   -> <<"F","a","l","s","e">>
      [] v = " TRUE "  -> <<" ","T","R","U","E"," ">>
      [] v = "maybe"   -> <<"m","a","y","b","e">>
      [] v = "sk-real" -> <<"s","k","-","r","e","a","l">>
      [] v = "eyJreal" -> <<"e","y","J","r","e","a","l">>
      [] v = "your-api-key-here" ->
             <<"y","o","u","r","-","a","p","i","-","k","e","y","-","h","e","r","e">>
      [] v = "https://real.supabase.co" ->
             <<"h","t","t","p","s",":","/","/","r","e","a","l",".",
               "s","u","p","a","b","a","s","e",".","c","o">>
      [] v = "https://example.supabase.co" ->
             <<"h","t","t","p","s",":","/","/","e","x","a","m","p","l","e",".",
               "s","u","p","a","b","a","s","e",".","c","o">>

DemoModeValues == {"auto", "true", "false", "False", " TRUE ", "maybe"}

UrlValues == {"", "https://real.supabase.co", "https://example.supabase.co"}

JwtValues == {"", "eyJreal", "your-api-key-here"}

KeyValues == {"", "sk-real"}

SettingsSpace ==
    [ DEMO_MODE                   : DemoModeValues,
      SUPABASE_URL                : UrlValues,
      SUPABASE_ANON_KEY           : JwtValues,
      SUPABASE_SERVICE_KEY        : JwtValues,
      OPENAI_API_KEY              : KeyValues,
      ANTHROPIC_API_KEY           : KeyValues,
      GEMINI_API_KEY              : KeyValues,
      DEEPSEEK_API_KEY            : KeyValues,
      STRIPE_SECRET_KEY           : KeyValues,
      STRIPE_WEBHOOK_SECRET       : KeyValues,
      LEMONSQUEEZY_API_KEY        : KeyValues,
      LEMONSQUEEZY_WEBHOOK_SECRET : KeyValues,
      RESEND_API_KEY              : KeyValues ]

\* the credentials, grouped as the sections of Settings group them:
\* Supabase, LLM, Stripe, Lemon Squeezy, Email
CredentialGroups == {
    {"SUPABASE_URL", "SUPABASE_ANON_KEY", "SUPABASE_SERVICE_KEY"},
    {"OPENAI_API_KEY", "ANTHROPIC_API_KEY", "GEMINI_API_KEY", "DEEPSEEK_API_KEY"},
    {"STRIPE_SECRET_KEY", "STRIPE_WEBHOOK_SECRET"},
    {"LEMONSQUEEZY_API_KEY", "LEMONSQUEEZY_WEBHOOK_SECRET"},
    {"RESEND_API_KEY"} }

\* the groups in which the settings s set at least one credential
ConfiguredGroups(s) ==
    {g \in CredentialGroups : \E key \in g : s[key] /= ""}

\* how many groups of credentials a deployment sets at once
MaxConfiguredGroups == 2

---------------------------------------------------------------------------
(* capabilities.py: ServiceStatus, CapabilityMatrix                        *)

DEMO == "DEMO"

PRODUCTION == "PRODUCTION"

UNKNOWN == "UNKNOWN"

ServiceStatus == {DEMO, PRODUCTION, UNKNOWN}

\* CapabilityMatrix._is_valid_key: bool(key and not is_placeholder(key))
is_valid_credential(value) ==
    /\ value /= None
    /\ value /= <<>>
    /\ ~is_placeholder(value)

\* _is_valid_key on a setting, written as a string literal
is_valid_key(key) == is_valid_credential(Chars(key))

\* the service names of the rule set, in the order the snapshot is filled
ServiceNames == <<"auth", "database", "openai", "anthropic", "gemini",
                  "deepseek", "payments", "email", "vector_search">>

Services == {ServiceNames[i] : i \in 1..Len(ServiceNames)}

\* a name the rule set does not know
OtherService == "storage"

ai_services == <<"openai", "anthropic", "gemini", "deepseek">>

stripe_configured(s) ==
    /\ is_valid_key(s.STRIPE_SECRET_KEY)
    /\ is_valid_key(s.STRIPE_WEBHOOK_SECRET)

lemon_configured(s) ==
    /\ is_valid_key(s.LEMONSQUEEZY_API_KEY)
    /\ is_valid_key(s.LEMONSQUEEZY_WEBHOOK_SECRET)

\* the auth rule with the anon key left out
detect_auth_without_anon(s) ==
    IF /\ is_valid_key(s.SUPABASE_URL)
       /\ is_valid_key(s.SUPABASE_SERVICE_KEY)
    THEN PRODUCTION ELSE DEMO

detect_auth(s) ==
    IF /\ is_valid_key(s.SUPABASE_URL)
       /\ is_valid_key(s.SUPABASE_ANON_KEY)
       /\ is_valid_key(s.SUPABASE_SERVICE_KEY)
    THEN PRODUCTION ELSE DEMO

\* the database rule asking for the anon key as well
detect_database_with_anon(s) ==
    IF /\ is_valid_key(s.SUPABASE_URL)
       /\ is_valid_key(s.SUPABASE_ANON_KEY)
       /\ is_valid_key(s.SUPABASE_SERVICE_KEY)
    THEN PRODUCTION ELSE DEMO

detect_database(s) ==
    IF /\ is_valid_key(s.SUPABASE_URL)
       /\ is_valid_key(s.SUPABASE_SERVICE_KEY)
    THEN PRODUCTION ELSE DEMO

detect_single(key) == IF is_valid_key(key) THEN PRODUCTION ELSE DEMO

detect_openai(s) == detect_single(s.OPENAI_API_KEY)

\* the anthropic rule reading the OpenAI key
detect_anthropic_from_openai(s) == detect_single(s.OPENAI_API_KEY)

detect_anthropic(s) == detect_single(s.ANTHROPIC_API_KEY)

detect_gemini(s) == detect_single(s.GEMINI_API_KEY)

detect_deepseek(s) == detect_single(s.DEEPSEEK_API_KEY)

\* the payments rule with AND and OR nested the other way round
detect_payments_mixed(s) ==
    IF /\ is_valid_key(s.STRIPE_SECRET_KEY) \/ is_valid_key(s.LEMONSQUEEZY_API_KEY)
       /\ is_valid_key(s.STRIPE_WEBHOOK_SECRET)
              \/ is_valid_key(s.LEMONSQUEEZY_WEBHOOK_SECRET)
    THEN PRODUCTION ELSE DEMO

detect_payments(s) ==
    IF stripe_configured(s) \/ lemon_configured(s) THEN PRODUCTION ELSE DEMO

\* the email rule leaving an unconfigured service UNKNOWN
detect_email_unknown(s) ==
    IF is_valid_key(s.RESEND_API_KEY) THEN PRODUCTION ELSE UNKNOWN

detect_email(s) == detect_single(s.RESEND_API_KEY)

\* _detect_capabilities with vector search never detected
detect_capabilities_without_vector_search(s) ==
    [ auth          |-> detect_auth(s),
      database      |-> detect_database(s),
      openai        |-> detect_openai(s),
      anthropic     |-> detect_anthropic(s),
      gemini        |-> detect_gemini(s),
      deepseek      |-> detect_deepseek(s),
      payments      |-> detect_payments(s),
      email         |-> detect_email(s),
      vector_search |-> DEMO ]

\* CapabilityMatrix._detect_capabilities, reading the settings s
detect_capabilities(s) ==
    LET database == detect_database(s)
    IN  [ auth          |-> detect_auth(s),
          database      |-> database,
          openai        |-> detect_openai(s),
          anthropic     |-> detect_anthropic(s),
          gemini        |-> detect_gemini(s),
          deepseek      |-> detect_deepseek(s),
          payments      |-> detect_payments(s),
          email         |-> detect_email(s),
          vector_search |-> database ]

\* dict.get(key, default)
DictGet(d, key, default) == IF key \in DOMAIN d THEN d[key] ELSE default

\* get_capability without the forced-demo branch
get_capability_no_forced_demo(service) ==
    IF Lower(Chars(settings.DEMO_MODE)) = Chars("false")
    THEN LET status == DictGet(capabilities, service, DEMO)
         IN  IF status = PRODUCTION THEN status ELSE UNKNOWN
    ELSE LET status == DictGet(capabilities, service, UNKNOWN)
         IN  IF status = UNKNOWN THEN DEMO ELSE status

\* get_capability where "false" forces every service to PRODUCTION
get_capability_force_production(service) ==
    IF Lower(Chars(settings.DEMO_MODE)) = Chars("true")
    THEN DEMO
    ELSE IF Lower(Chars(settings.DEMO_MODE)) = Chars("false")
    THEN PRODUCTION
    ELSE LET status == DictGet(capabilities, service, UNKNOWN)
         IN  IF status = UNKNOWN THEN DEMO ELSE status

\* get_capability whose auto branch does not coerce UNKNOWN to DEMO
get_capability_no_coercion(service) ==
    IF Lower(Chars(settings.DEMO_MODE)) = Chars("true")
    THEN DEMO
    ELSE IF Lower(Chars(settings.DEMO_MODE)) = Chars("false")
    THEN LET status == DictGet(capabilities, service, DEMO)
         IN  IF status = PRODUCTION THEN status ELSE UNKNOWN
    ELSE DictGet(capabilities, service, UNKNOWN)

\* get_capability answering DEMO for a DEMO_MODE it does not recognise
get_capability_unrecognised_is_demo(service) ==
    IF Lower(Chars(settings.DEMO_MODE)) = Chars("true")
    THEN DEMO
    ELSE IF Lower(Chars(settings.DEMO_MODE)) = Chars("false")
    THEN LET status == DictGet(capabilities, service, DEMO)
         IN  IF status = PRODUCTION THEN status ELSE UNKNOWN
    ELSE IF Lower(Chars(settings.DEMO_MODE)) = Chars("auto")
    THEN LET status == DictGet(capabilities, service, UNKNOWN)
         IN  IF status = UNKNOWN THEN DEMO ELSE status
    ELSE DEMO

\* get_capability that reports an AI service as DEMO while auth is DEMO
get_capability_ai_requires_auth(service) ==
    IF Lower(Chars(settings.DEMO_MODE)) = Chars("true")
    THEN DEMO
    ELSE IF Lower(Chars(settings.DEMO_MODE)) = Chars("false")
    THEN LET status == DictGet(capabilities, service, DEMO)
         IN  IF status = PRODUCTION THEN status ELSE UNKNOWN
    ELSE LET status == DictGet(capabilities, service, UNKNOWN)
         IN  IF status = UNKNOWN THEN DEMO
             ELSE IF /\ service \in {"openai", "anthropic", "gemini", "deepseek"}
                     /\ capabilities["auth"] /= PRODUCTION
             THEN DEMO
             ELSE status

\* CapabilityMatrix.get_capability
get_capability(service) ==
    IF Lower(Chars(settings.DEMO_MODE)) = Chars("true")
    THEN DEMO
    ELSE IF Lower(Chars(settings.DEMO_MODE)) = Chars("false")
    THEN LET status == DictGet(capabilities, service, DEMO)
         IN  IF status = PRODUCTION THEN status ELSE UNKNOWN
    ELSE LET status == DictGet(capabilities, service, UNKNOWN)
         IN  IF status = UNKNOWN THEN DEMO ELSE status

\* is_demo_mode with any() where the code has all()
is_demo_mode_any ==
    IF Lower(Chars(settings.DEMO_MODE)) = Chars("true")
    THEN TRUE
    ELSE IF Lower(Chars(settings.DEMO_MODE)) = Chars("false")
    THEN FALSE
    ELSE \E name \in DOMAIN capabilities : capabilities[name] = DEMO

\* CapabilityMatrix.is_demo_mode
is_demo_mode ==
    IF Lower(Chars(settings.DEMO_MODE)) = Chars("true")
    THEN TRUE
    ELSE IF Lower(Chars(settings.DEMO_MODE)) = Chars("false")
    THEN FALSE
    ELSE \A name \in DOMAIN capabilities : capabilities[name] = DEMO

\* CapabilityMatrix.has_real_auth
has_real_auth == get_capability("auth") = PRODUCTION

\* has_real_ai_providers looking at the first AI service only
has_real_ai_providers_first_only ==
    get_capability(ai_services[1]) = PRODUCTION

\* CapabilityMatrix.has_real_ai_providers
has_real_ai_providers ==
    \E i \in 1..Len(ai_services) : get_capability(ai_services[i]) = PRODUCTION

IsProductionService(service) == get_capability(service) = PRODUCTION

\* available_ai_providers listing the providers in alphabetical order
available_ai_providers_sorted ==
    <<"demo">> \o SelectSeq(<<"anthropic", "deepseek", "gemini", "openai">>,
                            IsProductionService)

\* CapabilityMatrix.available_ai_providers
available_ai_providers ==
    <<"demo">> \o SelectSeq(ai_services, IsProductionService)

\* _get_payment_providers asking each provider for its API key only
get_payment_providers_one_key ==
    (IF is_valid_key(settings.STRIPE_SECRET_KEY) THEN <<"stripe">> ELSE <<>>)
    \o (IF is_valid_key(settings.LEMONSQUEEZY_API_KEY)
        THEN <<"lemon_squeezy">> ELSE <<>>)

\* CapabilityMatrix._get_payment_providers (reads the settings when called)
get_payment_providers ==
    (IF stripe_configured(settings) THEN <<"stripe">> ELSE <<>>)
    \o (IF lemon_configured(settings) THEN <<"lemon_squeezy">> ELSE <<>>)

\* ServiceStatus.name.lower()
status_name_lower(status) ==
    CASE status = DEMO       -> "demo"
      [] status = PRODUCTION -> "production"
      [] status = UNKNOWN    -> "unknown"

\* the "mode" field of get_status_summary
summary_mode ==
    IF Lower(Chars(settings.DEMO_MODE)) = Chars("true")
    THEN "demo (forced)"
    ELSE IF Lower(Chars(settings.DEMO_MODE)) = Chars("false")
    THEN "production (forced)"
    ELSE IF Lower(Chars(settings.DEMO_MODE)) = Chars("auto")
    THEN (IF is_demo_mode THEN "demo" ELSE "mixed")
    ELSE "auto"

\* CapabilityMatrix.get_status_summary
get_status_summary ==
    [ mode         |-> summary_mode,
      is_demo      |-> is_demo_mode,
      capabilities |-> [name \in DOMAIN capabilities |->
                           status_name_lower(capabilities[name])],
      features     |->
        [ authentication |->
            [ enabled  |-> has_real_auth,
              provider |-> IF has_real_auth THEN "supabase" ELSE "demo" ],
          ai_providers |->
            [ enabled   |-> has_real_ai_providers,
              available |-> available_ai_providers ],
          payments |->
            [ enabled   |-> get_capability("payments") = PRODUCTION,
              providers |-> get_payment_providers ],
          vector_search |->
            [ enabled  |-> get_capability("vector_search") = PRODUCTION,
              provider |-> IF get_capability("vector_search") = PRODUCTION
                           THEN "pgvector" ELSE "in_memory" ] ] ]

---------------------------------------------------------------------------
(* The process: settings are read at start-up, the singleton CAPABILITIES  *)
(* is constructed from them, and callers then query it.                    *)

\* the module-level CAPS: get_capability of each service name, evaluated once
\* when the module is imported, right after CAPABILITIES is constructed
ImportCAPS == [name \in Services |-> get_capability(name)]

NoCall == <<>>

\* What a caller holds, by the Python type of the value: a ServiceStatus, a
\* bool, a list, a dict, or nothing yet
StatusValue(v) == [status |-> v]

BoolValue(v) == [bool |-> v]

ListValue(v) == [list |-> v]

DictValue(v) == [dict |-> v]

NoValue == [none |-> TRUE]

Init ==
    /\ settings \in SettingsSpace
    /\ Cardinality(ConfiguredGroups(settings)) <= MaxConfiguredGroups
    /\ capabilities = detect_capabilities(settings)
    /\ CAPS = ImportCAPS
    /\ pc = "idle"
    /\ call = NoCall
    /\ ret = NoValue

\* a query that stores the default of an unknown service name in the
\* snapshot (dict.setdefault where the code has dict.get)
Returns_storing_default(c, value) ==
    /\ pc = "idle"
    /\ pc' = "returned"
    /\ call' = c
    /\ ret' = value
    /\ capabilities' =
           IF c[1] = "get_capability" /\ c[2] \notin DOMAIN capabilities
           THEN capabilities @@ (c[2] :> UNKNOWN)
           ELSE capabilities
    /\ UNCHANGED <<settings, CAPS>>

Returns(c, value) ==
    /\ pc = "idle"
    /\ pc' = "returned"
    /\ call' = c
    /\ ret' = value
    /\ UNCHANGED <<settings, capabilities, CAPS>>

GetCapability ==
    \E service \in Services \cup {OtherService} :
        Returns(<<"get_capability", service>>,
                StatusValue(get_capability(service)))

IsDemoMode == Returns(<<"is_demo_mode">>, BoolValue(is_demo_mode))

HasRealAuth == Returns(<<"has_real_auth">>, BoolValue(has_real_auth))

HasRealAiProviders ==
    Returns(<<"has_real_ai_providers">>, BoolValue(has_real_ai_providers))

AvailableAiProviders ==
    Returns(<<"available_ai_providers">>, ListValue(available_ai_providers))

GetStatusSummary ==
    Returns(<<"get_status_summary">>, DictValue(get_status_summary))

\* the caller takes the returned value; the next call may start
Resume ==
    /\ pc = "returned"
    /\ pc' = "idle"
    /\ call' = NoCall
    /\ ret' = NoValue
    /\ UNCHANGED <<settings, capabilities, CAPS>>

Next ==
    \/ GetCapability
    \/ IsDemoMode
    \/ HasRealAuth
    \/ HasRealAiProviders
    \/ AvailableAiProviders
    \/ GetStatusSummary
    \/ Resume

Spec == Init /\ [][Next]_vars

---------------------------------------------------------------------------
(* The same process when the settings object is assigned to while it runs  *)
(* (config.py assigns attributes of the module-level settings; the tests   *)
(* patch them): the singleton stays the one constructed at start-up.       *)

\* the values each setting may take
SettingsValues ==
    [ DEMO_MODE                   |-> DemoModeValues,
      SUPABASE_URL                |-> UrlValues,
      SUPABASE_ANON_KEY           |-> JwtValues,
      SUPABASE_SERVICE_KEY        |-> JwtValues,
      OPENAI_API_KEY              |-> KeyValues,
      ANTHROPIC_API_KEY           |-> KeyValues,
      GEMINI_API_KEY              |-> KeyValues,
      DEEPSEEK_API_KEY            |-> KeyValues,
      STRIPE_SECRET_KEY           |-> KeyValues,
      STRIPE_WEBHOOK_SECRET       |-> KeyValues,
      LEMONSQUEEZY_API_KEY        |-> KeyValues,
      LEMONSQUEEZY_WEBHOOK_SECRET |-> KeyValues,
      RESEND_API_KEY              |-> KeyValues ]

\* how many groups of credentials are set at once while the settings change
MaxReconfiguredGroups == 1

InitReconfigurable ==
    /\ settings \in SettingsSpace
    /\ Cardinality(ConfiguredGroups(settings)) <= MaxReconfiguredGroups
    /\ capabilities = detect_capabilities(settings)
    /\ CAPS = ImportCAPS
    /\ pc = "idle"
    /\ call = NoCall
    /\ ret = NoValue

\* setattr(settings, key, value): nothing else is written, the Matrix is not
\* told
Reconfigure ==
    \E key \in DOMAIN SettingsValues :
        \E value \in SettingsValues[key] \ {settings[key]} :
            /\ settings' = [settings EXCEPT ![key] = value]
            /\ Cardinality(ConfiguredGroups(settings')) <= MaxReconfiguredGroups
            /\ UNCHANGED <<capabilities, CAPS, pc, call, ret>>

NextReconfigurable ==
    \/ GetCapability
    \/ IsDemoMode
    \/ HasRealAuth
    \/ HasRealAiProviders
    \/ AvailableAiProviders
    \/ GetStatusSummary
    \/ Resume
    \/ Reconfigure

SpecReconfigurable == InitReconfigurable /\ [][NextReconfigurable]_vars

---------------------------------------------------------------------------
(* The classifier on its own: a caller hands _is_valid_key one value of    *)
(* type Optional[str].                                                     *)

\* str.upper() on one character
UpperChar(c) ==
    IF \E u \in DOMAIN ToLower : ToLower[u] = c
    THEN CHOOSE u \in DOMAIN ToLower : ToLower[u] = c
    ELSE c

\* str.upper()
Upper(s) == [i \in 1..Len(s) |-> UpperChar(s[i])]

\* the texts a credential is made of: the placeholder fragments, the exact
\* placeholder values, the empty text and three real keys
CredentialCores ==
    {placeholders[p] : p \in 1..Len(placeholders)}
    \cup exact_placeholders
    \cup { <<>>,
           <<"s","k","-","l","i","v","e","-","a","b","c","1","2","3",
             "r","e","a","l","k","e","y">>,
           <<"s","k","-","r","e","a","l">>,
           <<"e","y","J","r","e","a","l">> }

CredentialPrefixes == { <<>>, <<" ">>, <<"s","k","-">> }

CredentialSuffixes == { <<>>, <<" ">>, <<"\t","\n">>, <<"-","9","f">> }

\* the values handed to _is_valid_key: None, and each core in its own
\* casing, in lower case and in upper case, between a prefix and a suffix
CredentialInputs ==
    {None} \cup
    { prefix \o text \o suffix :
          prefix \in CredentialPrefixes,
          text \in UNION {{core, Lower(core), Upper(core)} :
                              core \in CredentialCores},
          suffix \in CredentialSuffixes }

InitClassifier ==
    /\ settings \in SettingsSpace
    /\ ConfiguredGroups(settings) = {}
    /\ settings.DEMO_MODE = "auto"
    /\ capabilities = detect_capabilities(settings)
    /\ CAPS = ImportCAPS
    /\ pc = "idle"
    /\ call = NoCall
    /\ ret = NoValue

IsValidKey ==
    \E value \in CredentialInputs :
        Returns(<<"_is_valid_key", value>>, BoolValue(is_valid_credential(value)))

NextClassifier ==
    \/ IsValidKey
    \/ Resume

SpecClassifier == InitClassifier /\ [][NextClassifier]_vars

---------------------------------------------------------------------------
(* features.py: FeatureConfig, the singleton features; utils/env.py:       *)
(* env_bool; api/endpoints/health.py: GET /health/features.                *)

\* env_bool
env_bool(value) ==
    IF value = None \/ value = <<>> THEN FALSE
    ELSE Lower(Strip(value)) \in
             { <<"t","r","u","e">>, <<"1">>, <<"y","e","s">>, <<"y">>,
               <<"o","n">>, <<"t">> }

\* FeatureConfig._is_valid_key
features_is_valid_key(key) ==
    Chars(key) /= <<>> /\ ~is_placeholder(Chars(key))

\* FeatureConfig.has_real_providers
features_has_real_providers ==
    \/ features_is_valid_key(settings.OPENAI_API_KEY)
    \/ features_is_valid_key(settings.ANTHROPIC_API_KEY)
    \/ features_is_valid_key(settings.GEMINI_API_KEY)
    \/ features_is_valid_key(settings.DEEPSEEK_API_KEY)

\* FeatureConfig.demo_mode
features_demo_mode ==
    env_bool(Chars(settings.DEMO_MODE)) \/ ~features_has_real_providers

\* FeatureConfig.has_auth
features_has_auth ==
    /\ features_is_valid_key(settings.SUPABASE_URL)
    /\ features_is_valid_key(settings.SUPABASE_ANON_KEY)
    /\ features_is_valid_key(settings.SUPABASE_SERVICE_KEY)

\* FeatureConfig.has_payments
features_has_payments ==
    LET stripe == /\ features_is_valid_key(settings.STRIPE_SECRET_KEY)
                  /\ features_is_valid_key(settings.STRIPE_WEBHOOK_SECRET)
        lemon  == /\ features_is_valid_key(settings.LEMONSQUEEZY_API_KEY)
                  /\ features_is_valid_key(settings.LEMONSQUEEZY_WEBHOOK_SECRET)
    IN  stripe \/ lemon

\* FeatureConfig.has_vector_search
features_has_vector_search == features_has_auth

\* FeatureConfig.available_providers
features_available_providers ==
    <<"demo">>
    \o (IF features_is_valid_key(settings.OPENAI_API_KEY)
        THEN <<"openai">> ELSE <<>>)
    \o (IF features_is_valid_key(settings.ANTHROPIC_API_KEY)
        THEN <<"anthropic">> ELSE <<>>)
    \o (IF features_is_valid_key(settings.GEMINI_API_KEY)
        THEN <<"gemini">> ELSE <<>>)
    \o (IF features_is_valid_key(settings.DEEPSEEK_API_KEY)
        THEN <<"deepseek">> ELSE <<>>)

\* FeatureConfig._get_payment_providers
features_get_payment_providers ==
    (IF /\ features_is_valid_key(settings.STRIPE_SECRET_KEY)
        /\ features_is_valid_key(settings.STRIPE_WEBHOOK_SECRET)
     THEN <<"stripe">> ELSE <<>>)
    \o (IF /\ features_is_valid_key(settings.LEMONSQUEEZY_API_KEY)
           /\ features_is_valid_key(settings.LEMONSQUEEZY_WEBHOOK_SECRET)
        THEN <<"lemon_squeezy">> ELSE <<>>)

\* Settings.ENVIRONMENT, left at its default
ENVIRONMENT == "development"

\* FeatureConfig._get_warnings (the last warning without the sign that opens
\* it)
features_get_warnings ==
    (IF features_demo_mode
     THEN <<"System running in DEMO mode - no API keys configured">>
     ELSE <<>>)
    \o (IF ~features_has_auth
        THEN <<"Authentication not configured - using demo auth">>
        ELSE <<>>)
    \o (IF ~features_has_real_providers
        THEN <<"No AI providers configured - using demo responses">>
        ELSE <<>>)
    \o (IF ENVIRONMENT = "production" /\ features_demo_mode
        THEN <<"Production environment but running in demo mode!">>
        ELSE <<>>)

\* FeatureConfig.status_summary
features_status_summary ==
    [ demo_mode |-> features_demo_mode,
      features  |->
        [ ai_providers |->
            [ enabled   |-> features_has_real_providers,
              available |-> features_available_providers ],
          authentication |->
            [ enabled  |-> features_has_auth,
              provider |-> IF features_has_auth THEN "supabase" ELSE "demo" ],
          payments |->
            [ enabled   |-> features_has_payments,
              providers |-> features_get_payment_providers ],
          vector_search |->
            [ enabled  |-> features_has_vector_search,
              provider |-> IF features_has_vector_search
                           THEN "supabase_pgvector" ELSE "in_memory" ] ],
      warnings  |-> features_get_warnings ]

---------------------------------------------------------------------------
(* config.py: Settings.is_demo_mode; services/llm/__init__.py and          *)
(* api/endpoints/llm.py: the provider list and the generation endpoints.   *)
(* An endpoint's result is the provider it hands to                        *)
(* LLMServiceManager.generate_text, which answers itself for "demo" and    *)
(* passes the prompt to get_llm_service(provider) for every other one.     *)

\* Settings.is_demo_mode
settings_is_demo_mode ==
    LET mode == Strip(Lower(Chars(settings.DEMO_MODE)))
    IN  IF mode = Chars("true") THEN TRUE
        ELSE IF mode = Chars("false") THEN FALSE
        ELSE LET has_auth == /\ Chars(settings.SUPABASE_URL) /= <<>>
                             /\ Chars(settings.SUPABASE_ANON_KEY) /= <<>>
                 has_ai   == \/ Chars(settings.OPENAI_API_KEY) /= <<>>
                             \/ Chars(settings.ANTHROPIC_API_KEY) /= <<>>
                             \/ Chars(settings.GEMINI_API_KEY) /= <<>>
                             \/ Chars(settings.DEEPSEEK_API_KEY) /= <<>>
             IN  ~(has_auth \/ has_ai)

\* class LLMProvider
LLMProvider == {"demo", "openai", "anthropic", "gemini", "deepseek"}

\* provider_map of get_available_providers, in insertion order
provider_map == <<
    [ key |-> "openai", display_name |-> "OpenAI",
      models |-> <<"gpt-4o-mini", "gpt-4o", "o1-mini", "o1", "o3-mini">> ],
    [ key |-> "anthropic", display_name |-> "Anthropic",
      models |-> <<"claude-3-5-haiku-20241022", "claude-3-5-sonnet-20241022">> ],
    [ key |-> "gemini", display_name |-> "Google Gemini",
      models |-> <<"gemini-pro", "gemini-1.5-pro">> ],
    [ key |-> "deepseek", display_name |-> "DeepSeek",
      models |-> <<"deepseek-chat", "deepseek-reasoner">> ] >>

\* get_available_providers listing the models of every provider, configured
\* or not
get_available_providers_all_models ==
    << [ name |-> "demo", display_name |-> "Demo Provider",
         configured |-> TRUE, models |-> <<"demo-model">> ] >>
    \o [ i \in 1..Len(provider_map) |->
             [ name         |-> provider_map[i].key,
               display_name |-> provider_map[i].display_name,
               configured   |->
                   DictGet(CAPS, provider_map[i].key, DEMO) = PRODUCTION,
               models       |-> provider_map[i].models ] ]

\* LLMServiceManager.get_available_providers
get_available_providers ==
    << [ name |-> "demo", display_name |-> "Demo Provider",
         configured |-> TRUE, models |-> <<"demo-model">> ] >>
    \o [ i \in 1..Len(provider_map) |->
             LET configured ==
                     DictGet(CAPS, provider_map[i].key, DEMO) = PRODUCTION
             IN  [ name         |-> provider_map[i].key,
                   display_name |-> provider_map[i].display_name,
                   configured   |-> configured,
                   models       |-> IF configured THEN provider_map[i].models
                                    ELSE <<>> ] ]

\* POST /demo for a request naming provider: the provider handed on
demo_generate(provider) ==
    IF provider /= "demo"
    THEN LET providers == get_available_providers
         IN  IF \E i \in 1..Len(providers) :
                     providers[i].name = provider /\ providers[i].configured
             THEN provider
             ELSE "demo"
    ELSE "demo"

\* POST /generate for an admitted caller and a request naming provider: the
\* provider handed on
generate_text(provider) ==
    IF settings_is_demo_mode THEN "demo" ELSE provider

ProviderValue(v) == [provider |-> v]

GetAvailableProviders ==
    Returns(<<"get_available_providers">>, ListValue(get_available_providers))

DemoGenerate ==
    \E provider \in LLMProvider :
        Returns(<<"demo_generate", provider>>,
                ProviderValue(demo_generate(provider)))

GenerateText ==
    \E provider \in LLMProvider :
        Returns(<<"generate_text", provider>>,
                ProviderValue(generate_text(provider)))

\* GET /health/features
FeatureConfiguration ==
    Returns(<<"feature_configuration">>, DictValue(features_status_summary))

\* the Matrix queries and the endpoints, in any order
NextEndpoints ==
    \/ GetStatusSummary
    \/ FeatureConfiguration
    \/ GetAvailableProviders
    \/ DemoGenerate
    \/ GenerateText
    \/ Resume

SpecEndpoints == Init /\ [][NextEndpoints]_vars

TypeOK ==
    /\ settings \in SettingsSpace
    /\ DOMAIN capabilities = Services
    /\ DOMAIN CAPS = Services
    /\ pc \in {"idle", "returned"}

---------------------------------------------------------------------------
(* Vocabulary of the properties                                            *)

CredentialKeys == {
    "SUPABASE_URL", "SUPABASE_ANON_KEY", "SUPABASE_SERVICE_KEY",
    "OPENAI_API_KEY", "ANTHROPIC_API_KEY", "GEMINI_API_KEY", "DEEPSEEK_API_KEY",
    "STRIPE_SECRET_KEY", "STRIPE_WEBHOOK_SECRET",
    "LEMONSQUEEZY_API_KEY", "LEMONSQUEEZY_WEBHOOK_SECRET", "RESEND_API_KEY" }

\* the values of the configuration space that are real credentials: neither
\* empty nor a placeholder
RealCredentials == {"sk-real", "eyJreal", "https://real.supabase.co"}

Real(key) == settings[key] \in RealCredentials

AllCredentialsEmpty == \A key \in CredentialKeys : settings[key] = ""

\* every credential the rule of a service names is real
Configured(service) ==
    CASE service = "auth" ->
            Real("SUPABASE_URL") /\ Real("SUPABASE_ANON_KEY")
                                 /\ Real("SUPABASE_SERVICE_KEY")
      [] service \in {"database", "vector_search"} ->
            Real("SUPABASE_URL") /\ Real("SUPABASE_SERVICE_KEY")
      [] service = "openai"    -> Real("OPENAI_API_KEY")
      [] service = "anthropic" -> Real("ANTHROPIC_API_KEY")
      [] service = "gemini"    -> Real("GEMINI_API_KEY")
      [] service = "deepseek"  -> Real("DEEPSEEK_API_KEY")
      [] service = "payments"  ->
            \/ Real("STRIPE_SECRET_KEY") /\ Real("STRIPE_WEBHOOK_SECRET")
            \/ Real("LEMONSQUEEZY_API_KEY") /\ Real("LEMONSQUEEZY_WEBHOOK_SECRET")
      [] service = "email"     -> Real("RESEND_API_KEY")
      [] OTHER                 -> FALSE

\* the caller holds the value returned by operation op
Called(op) == pc = "returned" /\ call[1] = op

CalledWith(op, arg) == pc = "returned" /\ call = <<op, arg>>

---------------------------------------------------------------------------
(* Properties                                                              *)

\* C1: for every DEMO_MODE, every credential configuration and every service
\* name (the nine known ones and a name absent from the rule set),
\* get_capability returns Demo or Production, never Unknown.
C1_NeverUnknown ==
    Called("get_capability") => ret.status \in {DEMO, PRODUCTION}

\* C2: when DEMO_MODE is "true", get_capability(s) is Demo for every service
\* s and every credential configuration, also when every credential of s is
\* real.
C2_ForcedDemo ==
    (settings.DEMO_MODE = "true" /\ Called("get_capability")) => ret.status = DEMO

C2_Witness ==
    /\ settings.DEMO_MODE = "true"
    /\ Configured("auth")
    /\ CalledWith("get_capability", "auth")
    /\ capabilities["auth"] = PRODUCTION
    /\ ret.status = DEMO

\* C3: when DEMO_MODE is "false", get_capability(s) is Production if and only
\* if the snapshot built at construction holds Production for s, and a service
\* whose credentials are not all real is never reported as Production.
C3_ForcedProduction ==
    (settings.DEMO_MODE = "false" /\ Called("get_capability")) =>
        /\ ret.status = PRODUCTION <=>
               /\ call[2] \in DOMAIN capabilities
               /\ capabilities[call[2]] = PRODUCTION
        /\ ret.status = PRODUCTION => Configured(call[2])

C3_Witness ==
    /\ settings.DEMO_MODE = "false"
    /\ CalledWith("get_capability", "auth")
    /\ Real("SUPABASE_URL")
    /\ settings.SUPABASE_ANON_KEY = "your-api-key-here"
    /\ Real("SUPABASE_SERVICE_KEY")
    /\ ret.status /= PRODUCTION

\* C4: is_demo_mode is true under DEMO_MODE "true", false under DEMO_MODE
\* "false" for every credential configuration, and under DEMO_MODE "auto" it is
\* true exactly when every service of the snapshot is Demo.
C4_IsDemoMode ==
    Called("is_demo_mode") =>
        /\ settings.DEMO_MODE = "true"  => ret.bool = TRUE
        /\ settings.DEMO_MODE = "false" => ret.bool = FALSE
        /\ settings.DEMO_MODE = "auto"  =>
               (ret.bool = TRUE <=> \A s \in Services : capabilities[s] = DEMO)

C4_Witness ==
    /\ settings.DEMO_MODE = "auto"
    /\ Called("is_demo_mode")
    /\ Configured("auth")
    /\ settings.OPENAI_API_KEY = ""
    /\ ret.bool = FALSE

C6_CompoundAuth ==
    (settings.DEMO_MODE = "auto" /\ CalledWith("get_capability", "auth")) =>
        /\ ret.status = PRODUCTION <=>
               /\ Real("SUPABASE_URL")
               /\ Real("SUPABASE_ANON_KEY")
               /\ Real("SUPABASE_SERVICE_KEY")
        /\ ret.status \in {DEMO, PRODUCTION}

C6_Witness ==
    /\ settings.DEMO_MODE = "auto"
    /\ CalledWith("get_capability", "auth")
    /\ Real("SUPABASE_URL")
    /\ settings.SUPABASE_ANON_KEY = "your-api-key-here"
    /\ Real("SUPABASE_SERVICE_KEY")
    /\ ret.status = DEMO

\* C7: the snapshot status of "database" is Production if and only if
\* SUPABASE_URL and SUPABASE_SERVICE_KEY are both real, whatever
\* SUPABASE_ANON_KEY is; "vector_search" has the status of "database" in the
\* snapshot, and get_capability answers the same for both under every DEMO_MODE.
C7_DatabaseAndVectorSearch ==
    /\ capabilities["database"] = PRODUCTION <=>
           (Real("SUPABASE_URL") /\ Real("SUPABASE_SERVICE_KEY"))
    /\ capabilities["database"] \in {DEMO, PRODUCTION}
    /\ capabilities["vector_search"] = capabilities["database"]
    /\ CalledWith("get_capability", "vector_search") =>
           ret.status = get_capability("database")
    /\ CalledWith("get_capability", "database") =>
           ret.status = get_capability("vector_search")

C7_Witness ==
    /\ Real("SUPABASE_URL")
    /\ settings.SUPABASE_ANON_KEY = ""
    /\ Real("SUPABASE_SERVICE_KEY")
    /\ capabilities["database"] = PRODUCTION
    /\ capabilities["auth"] = DEMO
    /\ settings.DEMO_MODE = "auto"
    /\ CalledWith("get_capability", "vector_search")
    /\ ret.status = PRODUCTION

\* C8: the snapshot status of "payments" is Production if and only if both
\* Stripe credentials are real or both Lemon Squeezy credentials are real; one
\* real key of each provider without its partner leaves it Demo.
C8_Payments ==
    /\ capabilities["payments"] = PRODUCTION <=>
           \/ Real("STRIPE_SECRET_KEY") /\ Real("STRIPE_WEBHOOK_SECRET")
           \/ Real("LEMONSQUEEZY_API_KEY") /\ Real("LEMONSQUEEZY_WEBHOOK_SECRET")
    /\ capabilities["payments"] \in {DEMO, PRODUCTION}

C8_Witness ==
    /\ Real("STRIPE_SECRET_KEY")
    /\ settings.STRIPE_WEBHOOK_SECRET = ""
    /\ settings.LEMONSQUEEZY_API_KEY = ""
    /\ Real("LEMONSQUEEZY_WEBHOOK_SECRET")
    /\ capabilities["payments"] = DEMO
    /\ settings.DEMO_MODE = "auto"
    /\ CalledWith("get_capability", "payments")
    /\ ret.status = DEMO

\* the one configuration key of each single-credential service
OwnKey ==
    [ openai    |-> "OPENAI_API_KEY",
      anthropic |-> "ANTHROPIC_API_KEY",
      gemini    |-> "GEMINI_API_KEY",
      deepseek  |-> "DEEPSEEK_API_KEY",
      email     |-> "RESEND_API_KEY" ]

\* C9: each of openai, anthropic, gemini, deepseek and email is Production in
\* the snapshot if and only if its own API key is a real credential, whatever
\* the other configuration keys hold.
C9_SingleCredential ==
    \A service \in DOMAIN OwnKey :
        /\ capabilities[service] = PRODUCTION <=> Real(OwnKey[service])
        /\ capabilities[service] \in {DEMO, PRODUCTION}

C9_Witness ==
    /\ Real("ANTHROPIC_API_KEY")
    /\ \A key \in CredentialKeys \ {"ANTHROPIC_API_KEY"} : settings[key] = ""
    /\ capabilities["anthropic"] = PRODUCTION
    /\ \A service \in Services \ {"anthropic"} : capabilities[service] = DEMO
    /\ settings.DEMO_MODE = "auto"
    /\ CalledWith("get_capability", "anthropic")
    /\ ret.status = PRODUCTION

\* the canonical order of the AI providers
ProviderRank == [ openai |-> 1, anthropic |-> 2, gemini |-> 3, deepseek |-> 4 ]

\* C10: available_ai_providers returns a sequence whose first element is
\* "demo", followed by exactly those of openai, anthropic, gemini, deepseek
\* whose get_capability is Production, each at most once and in that order;
\* with openai and gemini real and the other two empty under "auto" it is
\* <<"demo", "openai", "gemini">>.
C10_AvailableProviders ==
    Called("available_ai_providers") =>
        /\ Len(ret.list) >= 1
        /\ ret.list[1] = "demo"
        /\ \A i \in 2..Len(ret.list) :
               /\ ret.list[i] \in DOMAIN ProviderRank
               /\ get_capability(ret.list[i]) = PRODUCTION
        /\ \A name \in DOMAIN ProviderRank :
               get_capability(name) = PRODUCTION =>
                   \E i \in 2..Len(ret.list) : ret.list[i] = name
        /\ \A i, j \in 2..Len(ret.list) :
               i < j => ProviderRank[ret.list[i]] < ProviderRank[ret.list[j]]
        /\ ( /\ settings.DEMO_MODE = "auto"
             /\ Real("OPENAI_API_KEY")
             /\ settings.ANTHROPIC_API_KEY = ""
             /\ Real("GEMINI_API_KEY")
             /\ settings.DEEPSEEK_API_KEY = "" )
           => ret.list = <<"demo", "openai", "gemini">>

C10_Witness ==
    /\ settings.DEMO_MODE = "auto"
    /\ Real("OPENAI_API_KEY")
    /\ settings.ANTHROPIC_API_KEY = ""
    /\ Real("GEMINI_API_KEY")
    /\ settings.DEEPSEEK_API_KEY = ""
    /\ Called("available_ai_providers")
    /\ ret.list = <<"demo", "openai", "gemini">>

\* C11: has_real_ai_providers is true if and only if get_capability is
\* Production for at least one of openai, anthropic, gemini, deepseek, and
\* that is the case exactly when available_ai_providers has an entry other
\* than "demo"; has_real_auth is true if and only if get_capability("auth")
\* is Production.
C11_RealProviders ==
    /\ Called("has_real_ai_providers") =>
           (ret.bool = TRUE <=>
                \E name \in DOMAIN ProviderRank : get_capability(name) = PRODUCTION)
    /\ Called("available_ai_providers") =>
           ((\E i \in 1..Len(ret.list) : ret.list[i] /= "demo") <=>
                \E name \in DOMAIN ProviderRank : get_capability(name) = PRODUCTION)
    /\ Called("has_real_auth") =>
           (ret.bool = TRUE <=> get_capability("auth") = PRODUCTION)

C11_Witness ==
    /\ settings.DEMO_MODE = "auto"
    /\ settings.OPENAI_API_KEY = ""
    /\ Real("DEEPSEEK_API_KEY")
    /\ Called("has_real_ai_providers")
    /\ ret.bool = TRUE
    /\ available_ai_providers = <<"demo", "deepseek">>

\* C12: under DEMO_MODE "auto", when the three auth credentials are not all
\* real and at least one AI key is real, has_real_ai_providers is true and
\* has_real_auth is false, get_capability("auth") is Demo and get_capability
\* of every AI service with a real key is Production: the AI service is not
\* downgraded to Demo.
C12_AiWithoutAuth ==
    ( /\ settings.DEMO_MODE = "auto"
      /\ ~Configured("auth")
      /\ \E name \in DOMAIN ProviderRank : Real(OwnKey[name]) )
    => /\ Called("has_real_ai_providers") => ret.bool = TRUE
       /\ Called("has_real_auth") => ret.bool = FALSE
       /\ CalledWith("get_capability", "auth") => ret.status = DEMO
       /\ \A name \in DOMAIN ProviderRank :
              (CalledWith("get_capability", name) /\ Real(OwnKey[name]))
                  => ret.status = PRODUCTION

C12_Witness ==
    /\ settings.DEMO_MODE = "auto"
    /\ settings.SUPABASE_URL = ""
    /\ Real("OPENAI_API_KEY")
    /\ Real("ANTHROPIC_API_KEY")
    /\ CalledWith("get_capability", "openai")
    /\ ret.status = PRODUCTION
    /\ has_real_ai_providers
    /\ ~has_real_auth

\* C13: in the "capabilities" mapping of get_status_summary, for every
\* configuration, if any of openai, anthropic, gemini or deepseek is
\* "production" then auth is "production".
C13_NoAiWithoutAuth ==
    Called("get_status_summary") =>
        ((\E name \in DOMAIN ProviderRank :
              ret.dict.capabilities[name] = "production")
         => ret.dict.capabilities["auth"] = "production")

\* DEMO_MODE as the contract reads it: without regard to letter case and to
\* surrounding whitespace
NormalizedDemoMode == Lower(Strip(Chars(settings.DEMO_MODE)))

ForceDemo == NormalizedDemoMode = Chars("true")

ForceProduction == NormalizedDemoMode = Chars("false")

\* C14: the "mode" field of get_status_summary is always one of
\* "demo (forced)", "production (forced)", "demo", "mixed": "demo (forced)"
\* exactly under ForceDemo, "production (forced)" exactly under
\* ForceProduction, and otherwise "demo" when is_demo_mode is true and "mixed"
\* when it is false.
C14_SummaryMode ==
    Called("get_status_summary") =>
        /\ ret.dict.mode \in
               {"demo (forced)", "production (forced)", "demo", "mixed"}
        /\ ret.dict.mode = "demo (forced)" <=> ForceDemo
        /\ ret.dict.mode = "production (forced)" <=> ForceProduction
        /\ (~ForceDemo /\ ~ForceProduction) =>
               ret.dict.mode = (IF is_demo_mode THEN "demo" ELSE "mixed")

\* C15: DEMO_MODE is read without regard to letter case and after trimming
\* surrounding whitespace: every casing or padding of "true" selects ForceDemo
\* and every casing or padding of "false" selects ForceProduction, in
\* get_capability, in is_demo_mode and in get_status_summary alike.
C15_CaseAndPadding ==
    /\ ForceDemo =>
           /\ Called("get_capability") => ret.status = DEMO
           /\ Called("is_demo_mode") => ret.bool = TRUE
           /\ Called("get_status_summary") => ret.dict.mode = "demo (forced)"
    /\ ForceProduction =>
           /\ Called("get_capability") =>
                  (ret.status = PRODUCTION <=>
                       DictGet(capabilities, call[2], DEMO) = PRODUCTION)
           /\ Called("is_demo_mode") => ret.bool = FALSE
           /\ Called("get_status_summary") =>
                  ret.dict.mode = "production (forced)"

\* a DEMO_MODE that is none of "true", "false", "auto" in any casing or padding
Malformed ==
    /\ ~ForceDemo
    /\ ~ForceProduction
    /\ NormalizedDemoMode /= Chars("auto")

SnapshotProduction(name) == capabilities[name] = PRODUCTION

\* what the query c answers from the snapshot alone, no override applied
AutoResult(c) ==
    CASE c[1] = "get_capability" ->
             StatusValue(IF c[2] \in DOMAIN capabilities
                         THEN capabilities[c[2]] ELSE DEMO)
      [] c[1] = "is_demo_mode" ->
             BoolValue(\A name \in DOMAIN capabilities : capabilities[name] = DEMO)
      [] c[1] = "has_real_auth" ->
             BoolValue(SnapshotProduction("auth"))
      [] c[1] = "has_real_ai_providers" ->
             BoolValue(\E name \in DOMAIN ProviderRank : SnapshotProduction(name))
      [] c[1] = "available_ai_providers" ->
             ListValue(<<"demo">> \o
                       SelectSeq(<<"openai", "anthropic", "gemini", "deepseek">>,
                                 SnapshotProduction))

\* C16: for a DEMO_MODE that is none of "true", "false", "auto",
\* get_capability, is_demo_mode, has_real_auth, has_real_ai_providers and
\* available_ai_providers return, in every credential configuration, what
\* they return with DEMO_MODE "auto": in both cases the answer read from the
\* snapshot with no override applied.
C16_MalformedIsAuto ==
    ( /\ Malformed \/ settings.DEMO_MODE = "auto"
      /\ pc = "returned"
      /\ call[1] /= "get_status_summary" )
    => ret = AutoResult(call)

C16_Witness ==
    /\ Malformed
    /\ settings.DEMO_MODE = "maybe"
    /\ Real("OPENAI_API_KEY")
    /\ Configured("auth")
    /\ Called("available_ai_providers")
    /\ ret.list = <<"demo", "openai">>
    /\ ~is_demo_mode
    /\ has_real_auth

\* C17: the snapshot built at construction has exactly the nine service keys
\* auth, database, openai, anthropic, gemini, deepseek, payments, email,
\* vector_search, each with value Demo or Production, and so the
\* "capabilities" mapping of get_status_summary has exactly these nine keys,
\* each "demo" or "production"; Unknown is never stored, for any configuration
\* and DEMO_MODE.
C17_SnapshotShape ==
    /\ DOMAIN capabilities =
           {"auth", "database", "openai", "anthropic", "gemini", "deepseek",
            "payments", "email", "vector_search"}
    /\ Cardinality(DOMAIN capabilities) = 9
    /\ \A name \in DOMAIN capabilities : capabilities[name] \in {DEMO, PRODUCTION}
    /\ Called("get_status_summary") =>
           /\ DOMAIN ret.dict.capabilities = DOMAIN capabilities
           /\ \A name \in DOMAIN ret.dict.capabilities :
                  /\ ret.dict.capabilities[name] \in {"demo", "production"}
                  /\ ret.dict.capabilities[name] = "production" <=>
                         capabilities[name] = PRODUCTION

C17_Witness ==
    /\ settings.DEMO_MODE = "false"
    /\ Real("RESEND_API_KEY")
    /\ settings.OPENAI_API_KEY = ""
    /\ Called("get_status_summary")
    /\ ret.dict.capabilities["email"] = "production"
    /\ ret.dict.capabilities["openai"] = "demo"
    /\ get_capability("openai") = UNKNOWN

\* C18: in get_status_summary, features.payments.enabled equals
\* (get_capability("payments") = Production), and features.payments.providers
\* is the list holding "stripe" if and only if both Stripe credentials are
\* real, followed by "lemon_squeezy" if and only if both Lemon Squeezy
\* credentials are real, and nothing else.
C18_PaymentsFeature ==
    Called("get_status_summary") =>
        /\ ret.dict.features.payments.enabled =
               (get_capability("payments") = PRODUCTION)
        /\ ret.dict.features.payments.providers =
               (IF Real("STRIPE_SECRET_KEY") /\ Real("STRIPE_WEBHOOK_SECRET")
                THEN <<"stripe">> ELSE <<>>)
               \o (IF /\ Real("LEMONSQUEEZY_API_KEY")
                      /\ Real("LEMONSQUEEZY_WEBHOOK_SECRET")
                   THEN <<"lemon_squeezy">> ELSE <<>>)

C18_Witness ==
    /\ settings.DEMO_MODE = "auto"
    /\ Real("STRIPE_SECRET_KEY")
    /\ Real("STRIPE_WEBHOOK_SECRET")
    /\ Real("LEMONSQUEEZY_API_KEY")
    /\ Real("LEMONSQUEEZY_WEBHOOK_SECRET")
    /\ Called("get_status_summary")
    /\ ret.dict.features.payments.enabled = TRUE
    /\ ret.dict.features.payments.providers = <<"stripe", "lemon_squeezy">>

\* the query operations with their arguments
Queries ==
    {<<"get_capability", service>> : service \in Services \cup {OtherService}}
    \cup {<<"is_demo_mode">>, <<"has_real_auth">>, <<"has_real_ai_providers">>,
          <<"available_ai_providers">>, <<"get_status_summary">>}

\* what the query c returns when called in the current state
Result(c) ==
    CASE c[1] = "get_capability"         -> StatusValue(get_capability(c[2]))
      [] c[1] = "is_demo_mode"           -> BoolValue(is_demo_mode)
      [] c[1] = "has_real_auth"          -> BoolValue(has_real_auth)
      [] c[1] = "has_real_ai_providers"  -> BoolValue(has_real_ai_providers)
      [] c[1] = "available_ai_providers" -> ListValue(available_ai_providers)
      [] c[1] = "get_status_summary"     -> DictValue(get_status_summary)

C20_FrozenAfterConstruction ==
    [][ (settings' /= settings /\ capabilities' = capabilities) =>
            \A c \in Queries : Result(c)' = Result(c) ]_vars

\* the denylist fragments as the contract lists them
DenylistFragments == {
    <<"y","o","u","r","_">>, <<"y","o","u","r","-">>, <<"x","x","x">>,
    <<"t","e","s","t","_">>, <<"s","k","_","t","e","s","t","_">>,
    <<"p","l","a","c","e","h","o","l","d","e","r">>,
    <<"e","x","a","m","p","l","e">>, <<"<","y","o","u","r">>,
    <<"c","h","a","n","g","e","_","m","e">>, <<"t","o","d","o">>,
    <<"f","i","x","m","e">>, <<"r","e","p","l","a","c","e","m","e">>,
    <<"y","o","u","r","_","k","e","y","_","h","e","r","e">>,
    <<"a","d","d","_","y","o","u","r","_">>, <<"i","n","s","e","r","t","_">>,
    <<"d","u","m","m","y">>, <<"s","a","m","p","l","e">> }

\* the exact-match denylist as the contract lists it
DenylistExact == {
    <<"s","k","_","t","e","s","t","_","1","2","3","4","5","6","7","8","9","0">>,
    <<"e","y","J","h","b","G","c","i","O","i",".",".",".">>,
    <<"h","t","t","p","s",":","/","/","e","x","a","m","p","l","e",".",
      "s","u","p","a","b","a","s","e",".","c","o">>,
    <<"y","o","u","r","-","a","p","i","-","k","e","y","-","h","e","r","e">>,
    <<"y","o","u","r","_","a","p","i","_","k","e","y","_","h","e","r","e">> }

\* C21: the classifier answers for every value, and is_valid_credential(v) is
\* false exactly when v is None or empty, or v contains anywhere, compared
\* without regard to letter case, one of the denylist fragments, or v equals
\* an entry of the exact-match denylist; otherwise it is true.  So
\* "your-api-key-here" and "https://example.supabase.co" are invalid and
\* "sk-live-abc123realkey" is valid, and None is invalid like the empty value.
C21_Classifier ==
    /\ Called("_is_valid_key") =>
           /\ ret.bool \in BOOLEAN
           /\ ret.bool = FALSE <=>
                  \/ call[2] = None
                  \/ call[2] = <<>>
                  \/ \E fragment \in DenylistFragments :
                         Contains(Lower(call[2]), fragment)
                  \/ call[2] \in DenylistExact
    /\ ~is_valid_credential(
           <<"y","o","u","r","-","a","p","i","-","k","e","y","-","h","e","r","e">>)
    /\ ~is_valid_credential(
           <<"h","t","t","p","s",":","/","/","e","x","a","m","p","l","e",".",
             "s","u","p","a","b","a","s","e",".","c","o">>)
    /\ is_valid_credential(
           <<"s","k","-","l","i","v","e","-","a","b","c","1","2","3",
             "r","e","a","l","k","e","y">>)
    /\ is_valid_credential(None) = is_valid_credential(<<>>)

C21_Witness ==
    /\ CalledWith("_is_valid_key",
                  <<"e","y","J","h","b","G","c","i","O","i",".",".",".">>)
    /\ ret.bool = FALSE

\* C30: credential classification does not depend on surrounding whitespace
\* or on letter case: for every string v, is_valid_credential(v) equals
\* is_valid_credential of v trimmed and case-folded; a whitespace-only value
\* is invalid like the empty string, and an exact-match denylist value stays
\* invalid when padded with whitespace or written in another case.
C30_TrimAndCaseFold ==
    (Called("_is_valid_key") /\ call[2] /= None) =>
        /\ ret.bool = is_valid_credential(Lower(Strip(call[2])))
        /\ Strip(call[2]) = <<>> => ret.bool = FALSE
        /\ (\E entry \in DenylistExact : Lower(Strip(call[2])) = Lower(entry))
               => ret.bool = FALSE

\* C22: production AI cannot be used without auth: whenever has_real_auth
\* is false, POST /demo, which asks the caller for no credentials, hands the
\* prompt to the demo provider, whatever provider the request names.
C22_NoRealProviderWithoutAuth ==
    (~has_real_auth /\ Called("demo_generate")) => ret.provider = "demo"


\* the names of the entries of a provider list, in order
ProviderNames(providers) == [i \in 1..Len(providers) |-> providers[i].name]

\* the entries of a provider list that are configured
ConfiguredProviders(providers) ==
    SelectSeq(providers, LAMBDA p : p.configured)

\* C29: get_available_providers returns demo first, configured, then openai,
\* anthropic, gemini and deepseek in that order, each configured exactly when
\* its capability is Production and with a non-empty model list exactly when
\* configured; as long as the configuration is the one the process started
\* with, the configured names are available_ai_providers, in the same order.
C29_AvailableProviders ==
    Called("get_available_providers") =>
        LET providers == ret.list
        IN  /\ ProviderNames(providers)
                 = <<"demo", "openai", "anthropic", "gemini", "deepseek">>
            /\ providers[1].configured
            /\ \A i \in 2..Len(providers) :
                   /\ providers[i].configured
                        <=> get_capability(providers[i].name) = PRODUCTION
                   /\ providers[i].models /= <<>> <=> providers[i].configured
            /\ ProviderNames(ConfiguredProviders(providers))
                 = available_ai_providers

\* the list holds a configured provider and an unconfigured one after demo
C29_Witness ==
    /\ Called("get_available_providers")
    /\ \E i, j \in 2..Len(ret.list) :
           /\ ret.list[i].configured /\ ~ret.list[j].configured
           /\ i > j


\* some service resolves to Production
SomeProduction == \E s \in Services : get_capability(s) = PRODUCTION

\* C23 as stated: is_demo_mode is true if and only if no service resolves to
\* Production: when it returns true every get_capability(s) is Demo, and
\* when it returns false some get_capability(s) is Production, for every
\* DEMO_MODE and credential configuration.
C23_DemoIffNoProduction ==
    Called("is_demo_mode") =>
        /\ ret.bool => \A s \in Services : get_capability(s) = DEMO
        /\ ~ret.bool => SomeProduction

\* C23: when is_demo_mode returns true every get_capability(s) is Demo; when
\* it returns false, either DEMO_MODE is "false" in some letter case or some
\* get_capability(s) is Production.
C23_DemoIffNoProductionUnlessForced ==
    Called("is_demo_mode") =>
        /\ ret.bool => \A s \in Services : get_capability(s) = DEMO
        /\ ~ret.bool =>
               \/ Lower(Chars(settings.DEMO_MODE)) = Chars("false")
               \/ SomeProduction

\* is_demo_mode has returned false under DEMO_MODE "false" while no service
\* resolves to Production
C23_Witness ==
    /\ Called("is_demo_mode")
    /\ ~ret.bool
    /\ Lower(Chars(settings.DEMO_MODE)) = Chars("false")
    /\ ~SomeProduction


\* C24: the status summary agrees with the queries: for every DEMO_MODE and
\* credential configuration and every service s, the "capabilities" entry of
\* s in get_status_summary is "production" exactly when get_capability(s) is
\* Production.
C24_SummaryAgreesWithQueries ==
    Called("get_status_summary") =>
        \A s \in Services :
            ret.dict.capabilities[s] = "production"
                <=> get_capability(s) = PRODUCTION


\* C25 as stated: in every status summary, features.payments.enabled is true
\* if and only if features.payments.providers is not empty, for every
\* DEMO_MODE and credential configuration.
C25_PaymentsEnabledIffProviders ==
    Called("get_status_summary") =>
        (ret.dict.features.payments.enabled
            <=> ret.dict.features.payments.providers /= <<>>)

\* C25: in every status summary features.payments.enabled implies that
\* features.payments.providers is not empty, and unless DEMO_MODE is "true"
\* in some letter case a non-empty providers list implies enabled; under
\* DEMO_MODE "true" enabled is false whatever the providers list holds.
C25_PaymentsEnabledIffProvidersUnlessForcedDemo ==
    Called("get_status_summary") =>
        LET payments == ret.dict.features.payments
        IN  IF Lower(Chars(settings.DEMO_MODE)) = Chars("true")
            THEN ~payments.enabled
            ELSE payments.enabled <=> payments.providers /= <<>>

\* a summary under DEMO_MODE "true" lists a payment provider and reports
\* payments disabled
C25_Witness ==
    /\ Called("get_status_summary")
    /\ Lower(Chars(settings.DEMO_MODE)) = Chars("true")
    /\ ~ret.dict.features.payments.enabled
    /\ ret.dict.features.payments.providers /= <<>>


\* C28: auth implies database: for every DEMO_MODE and credential
\* configuration, if get_capability("auth") returns Production then
\* get_capability("database") and get_capability("vector_search") are
\* Production too.
C28_AuthImpliesDatabase ==
    (CalledWith("get_capability", "auth") /\ ret.status = PRODUCTION) =>
        /\ get_capability("database") = PRODUCTION
        /\ get_capability("vector_search") = PRODUCTION

\* get_capability("auth") has returned Production, under DEMO_MODE "false"
C28_Witness ==
    /\ CalledWith("get_capability", "auth")
    /\ ret.status = PRODUCTION
    /\ Lower(Chars(settings.DEMO_MODE)) = Chars("false")


\* C26: the two capability detectors agree: under DEMO_MODE "auto", for every
\* credential configuration, the FeatureConfig summary reports the same
\* values as the CapabilityMatrix for authentication enabled, AI providers
\* enabled and available, payments enabled and its provider list, and vector
\* search enabled.
C26_DetectorsAgree ==
    (Called("feature_configuration") /\ settings.DEMO_MODE = "auto") =>
        LET features == ret.dict.features
        IN  /\ features.authentication.enabled = has_real_auth
            /\ features.ai_providers.enabled = has_real_ai_providers
            /\ features.ai_providers.available = available_ai_providers
            /\ features.payments.enabled
                 = (get_capability("payments") = PRODUCTION)
            /\ features.payments.providers = get_payment_providers
            /\ features.vector_search.enabled
                 = (get_capability("vector_search") = PRODUCTION)


\* C27: the three demo-mode predicates agree: for every DEMO_MODE and
\* credential configuration CapabilityMatrix.is_demo_mode,
\* FeatureConfig.demo_mode and Settings.is_demo_mode are the same boolean;
\* in particular whenever CapabilityMatrix.is_demo_mode is true, POST
\* /generate hands the prompt to the demo provider.
C27_DemoPredicatesAgree ==
    /\ Called("feature_configuration") =>
           /\ ret.dict.demo_mode = is_demo_mode
           /\ settings_is_demo_mode = is_demo_mode
    /\ (Called("generate_text") /\ is_demo_mode) => ret.provider = "demo"

=============================================================================
